---- MODULE Spec2Model ----
(***************************************************************************)
(* Model of the question layouter of the visual designer                   *)
(* (questionLayouter and its helpers, appended to jsonWorker.js at lines   *)
(* 5866-6126).  A call of questionLayouter is one action: it reads the     *)
(* question node and the choice and branch lists, assigns offsets and      *)
(* hidden flags to the nodes and returns a GraphLayout.                    *)
(*                                                                         *)
(* Indices are 1-based here and 0-based in the source.  An absent          *)
(* gotoChoice (undefined, falsy) is the value 0.  An edge id, a template   *)
(* string in the source, is the tuple of the template's parts.             *)
(*                                                                         *)
(* GraphCoord, Boundary, GraphNode, GraphLayout and the size constants are *)
(* imported by the source from files that are not part of it; they are     *)
(* modelled from the specification's description of them (sections 3, 4    *)
(* and 6): a GraphCoord's boundary is the union bounding box of its        *)
(* primary and its dependents, its axisX is the primary's axis measured    *)
(* from the box's own origin, and moveCoordTo places the box's origin.     *)
(***************************************************************************)
EXTENDS Integers, Sequences, FiniteSets, TLC

VARIABLES questionNode, choiceNodes, branchNodes, result, calls, old

vars == <<questionNode, choiceNodes, branchNodes, result, calls, old>>

(* ----------------------------- bounds ---------------------------------- *)
MaxChoices == 3
MaxBranches == 3
MaxProfile == 1
MaxCalls == 2

(* --------------------------- constants --------------------------------- *)
ElementIntervalX == 50
ElementIntervalY == 60
BranchIntervalX == ElementIntervalX
BranchIntervalY == ElementIntervalY \div 2
BottomPadding == 200
NonBranchingWidth == 300
NonBranchingHeight == 286

QuestionTypes == {"choice", "confirm", "text", "number"}

Min(a, b) == IF a < b THEN a ELSE b
Max(a, b) == IF a > b THEN a ELSE b

(* ------------------------- value types --------------------------------- *)
(* new Boundary(width, height): the axis is the horizontal centre.         *)
Boundary(w, h) == [width |-> w, height |-> h, axisX |-> w \div 2]

(* The question argument when it is null.                                  *)
Null == [id |-> 0, boundary |-> Boundary(0, 0), offset |-> [x |-> 0, y |-> 0],
         hidden |-> FALSE,
         data |-> [type |-> "null", choiceId |-> 0, gotoChoice |-> 0, label |-> 0]]

GraphNode(id, b, off, hid, d) ==
    [id |-> id, boundary |-> b, offset |-> off, hidden |-> hid, data |-> d]

(* new GraphLayout(): zero boundary, nothing in it.                        *)
EmptyLayout ==
    [boundary |-> Boundary(0, 0), nodeMap |-> <<>>, edges |-> <<>>, nodes |-> <<>>,
     thrown |-> FALSE]

(* The outcome of a call that ends in a TypeError: nothing is returned.    *)
ThrownLayout ==
    [boundary |-> Boundary(0, 0), nodeMap |-> <<>>, edges |-> <<>>, nodes |-> <<>>,
     thrown |-> TRUE]

(* What a call leaves behind: the returned layout and the nodes as         *)
(* mutated.                                                                *)
Outcome(l, q, cs, bs) == [layout |-> l, q |-> q, cs |-> cs, bs |-> bs]

Edge(id, dir, x, y, len, opts) ==
    [id |-> id, direction |-> dir, x |-> x, y |-> y, length |-> len, options |-> opts]

(* ------------------------- GraphCoord ---------------------------------- *)
(* A composed coordinate: its boundary and the place of every node of its  *)
(* subtree relative to the boundary's origin.                              *)
Shift(places, dx, dy) ==
    { [kind |-> p.kind, idx |-> p.idx, x |-> p.x + dx, y |-> p.y + dy] : p \in places }

(* A GraphNode used as an element of a composition.                        *)
Leaf(kind, idx, node) ==
    [boundary |-> node.boundary,
     places |-> { [kind |-> kind, idx |-> idx, x |-> 0, y |-> 0] }]

(* new GraphCoord(primary, [[dep, [DT.AxisX, 0], [DT.BottomMargin, gap]]]) *)
(* The dependent's axis is on the primary's axis and its top is gap below  *)
(* the primary's bottom.                                                   *)
GraphCoord(primary, dep, gap) ==
    LET P == primary.boundary
        D == dep.boundary
        dx == P.axisX - D.axisX
        dy == P.height + gap
        left == Min(0, dx)
        right == Max(P.width, dx + D.width)
        bottom == Max(P.height, dy + D.height)
    IN [boundary |-> [width |-> right - left, height |-> bottom, axisX |-> P.axisX - left],
        places |-> Shift(primary.places, 0 - left, 0) \cup Shift(dep.places, dx - left, dy)]

RECURSIVE RowWidth(_, _, _)
(* Width of the first n elements of a row, each followed by the interval.  *)
RowWidth(elems, n, interval) ==
    IF n = 0 THEN 0
    ELSE RowWidth(elems, n - 1, interval) + elems[n].boundary.width + interval

RECURSIVE MaxHeight(_, _)
MaxHeight(elems, n) ==
    IF n = 0 THEN 0 ELSE Max(MaxHeight(elems, n - 1), elems[n].boundary.height)

(* GraphCoord.topAlignWithInterval(elems, interval, false): a row, tops    *)
(* aligned, left to right in list order, the interval between neighbours;  *)
(* not centred as a group, the row's axis is its first element's axis.     *)
topAlignWithInterval(elems, interval) ==
    LET n == Len(elems)
    IN IF n = 0
       THEN [boundary |-> Boundary(0, 0), places |-> {}]
       ELSE [boundary |-> [width |-> RowWidth(elems, n, interval) - interval,
                           height |-> MaxHeight(elems, n),
                           axisX |-> elems[1].boundary.axisX],
             places |-> UNION { Shift(elems[i].places, RowWidth(elems, i - 1, interval), 0)
                                : i \in 1..n }]

(* coord.moveCoordTo(0, 0): every node of the subtree gets its absolute    *)
(* offset; a node outside the subtree keeps the offset it had.             *)
Placed(coord, kind, idx) == { p \in coord.places : p.kind = kind /\ p.idx = idx }

moveCoordTo(coord, kind, idx, node) ==
    IF Placed(coord, kind, idx) = {}
    THEN node
    ELSE LET p == CHOOSE p \in Placed(coord, kind, idx) : TRUE
         IN [node EXCEPT !.offset = [x |-> p.x, y |-> p.y]]

MoveNodes(coord, kind, nodes) ==
    [i \in 1..Len(nodes) |-> moveCoordTo(coord, kind, i, nodes[i])]

(* ------------------------- calculateEdges ------------------------------ *)
(* The question's Down edge to the baseline (lines 6082-6088).             *)
ConditionEdge(containerBoundary, q) ==
    Edge(<<"edge", q.id, "switch/condition->switch">>, "Down",
         containerBoundary.axisX, q.offset.y + q.boundary.height, BranchIntervalY, <<>>)

BaselinePositionY(q) == q.offset.y + q.boundary.height + BranchIntervalY

(* CaseEdge that starts at the question's bottom instead of the baseline.  *)
CaseEdge_FromQuestionBottom(q, x) ==
    Edge(<<"edge", q.id, "case/baseline->", x.id>>, "Down",
         x.offset.x + x.boundary.axisX, q.offset.y + q.boundary.height,
         x.offset.y - BaselinePositionY(q), <<x.data.label>>)

(* One Down edge per node of the branch list (lines 6091-6100).            *)
CaseEdge(q, x) ==
    Edge(<<"edge", q.id, "case/baseline->", x.id>>, "Down",
         x.offset.x + x.boundary.axisX, BaselinePositionY(q),
         x.offset.y - BaselinePositionY(q), <<x.data.label>>)

(* BaselineEdges that draws the baseline for a single branch too.         *)
BaselineEdges_Always(q, bs) ==
    IF Len(bs) > 0
    THEN << Edge(<<"edge", q.id, "baseline">>, "Right",
                 bs[1].offset.x + bs[1].boundary.axisX, BaselinePositionY(q),
                 bs[Len(bs)].offset.x + bs[Len(bs)].boundary.axisX
                 - (bs[1].offset.x + bs[1].boundary.axisX), <<>>) >>
    ELSE <<>>

(* The baseline, only for more than one branch (lines 6102-6115).          *)
BaselineEdges(q, bs) ==
    IF Len(bs) > 1
    THEN LET firstBranchNode == bs[1]
             lastBranchNode == bs[Len(bs)]
             linePositionX == firstBranchNode.offset.x + firstBranchNode.boundary.axisX
             baseLineLength == lastBranchNode.offset.x + lastBranchNode.boundary.axisX
                               - linePositionX
         IN << Edge(<<"edge", q.id, "baseline">>, "Right",
                    linePositionX, BaselinePositionY(q), baseLineLength, <<>>) >>
    ELSE <<>>

(* calculateEdges without the question's own edge.                        *)
calculateEdges_NoCondition(containerBoundary, q, bs) ==
    [i \in 1..Len(bs) |-> CaseEdge(q, bs[i])] \o BaselineEdges(q, bs)

calculateEdges(containerBoundary, q, bs) ==
    << ConditionEdge(containerBoundary, q) >>
    \o [i \in 1..Len(bs) |-> CaseEdge(q, bs[i])]
    \o BaselineEdges(q, bs)

(* ---------------------- questionLayouterBranching ---------------------- *)
(* choiceWithBranchNodes that puts the branch directly under its choice,   *)
(* without the element gap.                                                *)
choiceWithBranchNodes_NoGap(cs, bs) ==
    [i \in 1..Min(Len(cs), Len(bs)) |->
        GraphCoord(Leaf("choice", i, cs[i]), Leaf("branch", i, bs[i]), 0)]

(* The pairs choiceNodes[i] / branchNodes[i], i < min of the two lengths.  *)
choiceWithBranchNodes(cs, bs) ==
    [i \in 1..Min(Len(cs), Len(bs)) |->
        GraphCoord(Leaf("choice", i, cs[i]), Leaf("branch", i, bs[i]), ElementIntervalY)]

(* Inflate that adds no padding.                                           *)
Inflate_None(coord) == coord

(* contentCoord.boundary.height += 200                                     *)
Inflate(coord) ==
    [coord EXCEPT !.boundary.height = @ + BottomPadding]

(* BranchingRoot with primary and dependent exchanged: the question below  *)
(* the content.                                                            *)
BranchingRoot_ContentFirst(q, cs, bs) ==
    LET contentCoord == Inflate(topAlignWithInterval(choiceWithBranchNodes(cs, bs),
                                                     BranchIntervalX))
    IN GraphCoord(contentCoord, Leaf("question", 1, q), BranchIntervalY * 2)

BranchingRoot(q, cs, bs) ==
    LET contentCoord == Inflate(topAlignWithInterval(choiceWithBranchNodes(cs, bs),
                                                     BranchIntervalX))
    IN GraphCoord(Leaf("question", 1, q), contentCoord, BranchIntervalY * 2)

NodeIds(nodes) == [i \in 1..Len(nodes) |-> nodes[i].id]

(* questionLayouterBranching that shows every branch again (hidden =       *)
(* false) when it lays the pairs out.                                      *)
questionLayouterBranching_Unhides(q, cs, bs) ==
    IF q.id = Null.id \/ Len(bs) = 0
    THEN Outcome(EmptyLayout, q, cs, bs)
    ELSE LET questionCoord == BranchingRoot(q, cs, bs)
             q2 == moveCoordTo(questionCoord, "question", 1, q)
             cs2 == MoveNodes(questionCoord, "choice", cs)
             bs2 == MoveNodes(questionCoord, "branch", bs)
         IN Outcome([boundary |-> questionCoord.boundary,
                     nodeMap |-> [questionNode |-> q.id, choiceNodes |-> NodeIds(cs),
                                  branchNodes |-> NodeIds(bs)],
                     edges |-> calculateEdges(questionCoord.boundary, q2, bs2),
                     nodes |-> <<>>,
                     thrown |-> FALSE],
                    q2, cs2,
                    [j \in 1..Len(bs2) |-> [bs2[j] EXCEPT !.hidden = FALSE]])

(* questionLayouterBranching that computes the edges before moveCoordTo   *)
(* has given the nodes their offsets.                                      *)
questionLayouterBranching_EdgesFirst(q, cs, bs) ==
    IF q.id = Null.id \/ Len(bs) = 0
    THEN Outcome(EmptyLayout, q, cs, bs)
    ELSE LET questionCoord == BranchingRoot(q, cs, bs)
         IN Outcome([boundary |-> questionCoord.boundary,
                     nodeMap |-> [questionNode |-> q.id, choiceNodes |-> NodeIds(cs),
                                  branchNodes |-> NodeIds(bs)],
                     edges |-> calculateEdges(questionCoord.boundary, q, bs),
                     nodes |-> <<>>,
                     thrown |-> FALSE],
                    moveCoordTo(questionCoord, "question", 1, q),
                    MoveNodes(questionCoord, "choice", cs),
                    MoveNodes(questionCoord, "branch", bs))

(* questionLayouterBranching without the test of the branch list's length *)
(* (line 5914).                                                            *)
questionLayouterBranching_NoBranchTest(q, cs, bs) ==
    IF q.id = Null.id
    THEN Outcome(EmptyLayout, q, cs, bs)
    ELSE LET questionCoord == BranchingRoot(q, cs, bs)
             q2 == moveCoordTo(questionCoord, "question", 1, q)
             cs2 == MoveNodes(questionCoord, "choice", cs)
             bs2 == MoveNodes(questionCoord, "branch", bs)
         IN Outcome([boundary |-> questionCoord.boundary,
                     nodeMap |-> [questionNode |-> q.id, choiceNodes |-> NodeIds(cs),
                                  branchNodes |-> NodeIds(bs)],
                     edges |-> calculateEdges(questionCoord.boundary, q2, bs2),
                     nodes |-> <<>>,
                     thrown |-> FALSE],
                    q2, cs2, bs2)

(* questionLayouterBranching in which the 200 units of padding land on a   *)
(* node's own boundary object (the first branch's) through an alias.       *)
questionLayouterBranching_InflatesNode(q, cs, bs) ==
    IF q.id = Null.id \/ Len(bs) = 0
    THEN Outcome(EmptyLayout, q, cs, bs)
    ELSE LET questionCoord == BranchingRoot(q, cs, bs)
             q2 == moveCoordTo(questionCoord, "question", 1, q)
             cs2 == MoveNodes(questionCoord, "choice", cs)
             bs2 == MoveNodes(questionCoord, "branch", bs)
         IN Outcome([boundary |-> questionCoord.boundary,
                     nodeMap |-> [questionNode |-> q.id, choiceNodes |-> NodeIds(cs),
                                  branchNodes |-> NodeIds(bs)],
                     edges |-> calculateEdges(questionCoord.boundary, q2, bs2),
                     nodes |-> <<>>,
                     thrown |-> FALSE],
                    q2, cs2,
                    [bs2 EXCEPT ![1].boundary.height = @ + BottomPadding])

questionLayouterBranching(q, cs, bs) ==
    IF q.id = Null.id \/ Len(bs) = 0
    THEN Outcome(EmptyLayout, q, cs, bs)
    ELSE LET questionCoord == BranchingRoot(q, cs, bs)
             q2 == moveCoordTo(questionCoord, "question", 1, q)
             cs2 == MoveNodes(questionCoord, "choice", cs)
             bs2 == MoveNodes(questionCoord, "branch", bs)
         IN Outcome([boundary |-> questionCoord.boundary,
                     nodeMap |-> [questionNode |-> q.id, choiceNodes |-> NodeIds(cs),
                                  branchNodes |-> NodeIds(bs)],
                     edges |-> calculateEdges(questionCoord.boundary, q2, bs2),
                     nodes |-> <<>>,
                     thrown |-> FALSE],
                    q2, cs2, bs2)

(* questionLayouterNonBranching with width and height exchanged.           *)
questionLayouterNonBranching_Swapped(q, cs, bs) ==
    Outcome([boundary |-> Boundary(NonBranchingHeight, NonBranchingWidth),
             nodeMap |-> [questionNode |-> q.id],
             edges |-> <<>>,
             nodes |-> <<>>,
             thrown |-> FALSE],
            q, cs, bs)

(* -------------------- questionLayouterNonBranching --------------------- *)
questionLayouterNonBranching(q, cs, bs) ==
    Outcome([boundary |-> Boundary(NonBranchingWidth, NonBranchingHeight),
             nodeMap |-> [questionNode |-> q.id],
             edges |-> <<>>,
             nodes |-> <<>>,
             thrown |-> FALSE],
            q, cs, bs)

(* --------------- questionLayouterBranchingWithConvergence -------------- *)
(* findIndex that returns the last matching branch instead of the first.   *)
findIndex_Last(bs, gotoChoice) ==
    IF \E j \in 1..Len(bs) : bs[j].data.choiceId = gotoChoice
    THEN CHOOSE j \in 1..Len(bs) :
            /\ bs[j].data.choiceId = gotoChoice
            /\ \A k \in (j + 1)..Len(bs) : bs[k].data.choiceId # gotoChoice
    ELSE 0

(* branchNodes.findIndex(n => n.data.choiceId === gotoChoice); 0 stands    *)
(* for the source's -1.                                                    *)
findIndex(bs, gotoChoice) ==
    IF \E j \in 1..Len(bs) : bs[j].data.choiceId = gotoChoice
    THEN CHOOSE j \in 1..Len(bs) :
            /\ bs[j].data.choiceId = gotoChoice
            /\ \A k \in 1..(j - 1) : bs[k].data.choiceId # gotoChoice
    ELSE 0

(* Redirects without the comparison with the choice's own choiceId.        *)
Redirects_NoSelfTest(node, bs) ==
    /\ node.data.gotoChoice # 0
    /\ findIndex(bs, node.data.gotoChoice) > 0

(* The choice redirects: the forEach body of lines 5962-5967 sets an entry.*)
Redirects(node, bs) ==
    /\ node.data.gotoChoice # 0
    /\ node.data.gotoChoice # node.data.choiceId
    /\ findIndex(bs, node.data.gotoChoice) > 0

(* choiceIndex => caseIndex                                                *)
convergenceMap(cs, bs) ==
    [i \in { c \in 1..Len(cs) : Redirects(cs[c], bs) } |->
        findIndex(bs, cs[i].data.gotoChoice)]

(* convergenceMap.get(iChoice) ?? iChoice                                  *)
iCase(map, iChoice) == IF iChoice \in DOMAIN map THEN map[iChoice] ELSE iChoice

RECURSIVE Connect_Prepend(_, _, _)
(* Connect that puts a choice at the front of its group (unshift for push).*)
Connect_Prepend(map, n, size) ==
    IF n = 0
    THEN [k \in 1..size |-> <<>>]
    ELSE LET before == Connect_Prepend(map, n - 1, size)
         IN [before EXCEPT ![iCase(map, n)] = <<n>> \o @]

RECURSIVE Connect(_, _, _)
(* The loop of lines 5975-5982 after its first n rounds: connections as a  *)
(* function of the case index, the empty list where the array has a hole.  *)
Connect(map, n, size) ==
    IF n = 0
    THEN [k \in 1..size |-> <<>>]
    ELSE LET before == Connect(map, n - 1, size)
         IN [before EXCEPT ![iCase(map, n)] = Append(@, n)]

connections(cs, bs) ==
    Connect(convergenceMap(cs, bs), Len(cs), Max(Len(cs), Len(bs)))

(* MarkHidden that also clears the flag of a reachable case.               *)
MarkHidden_Forced(conn, bs) ==
    [i \in 1..Len(bs) |-> [bs[i] EXCEPT !.hidden = (conn[i] = <<>>)]]

(* Some cases are unreachable. Mark as hidden (lines 5985-5987).           *)
MarkHidden(conn, bs) ==
    [i \in 1..Len(bs) |-> IF conn[i] = <<>> THEN [bs[i] EXCEPT !.hidden = TRUE] ELSE bs[i]]

RECURSIVE Reachable_Reversed(_, _)
(* Reachable that lists the groups from the highest case index down.       *)
Reachable_Reversed(conn, n) ==
    IF n = 0 THEN <<>>
    ELSE IF conn[n] = <<>>
         THEN Reachable_Reversed(conn, n - 1)
         ELSE << [caseIdx |-> n, choiceIndices |-> conn[n]] >>
              \o Reachable_Reversed(conn, n - 1)

RECURSIVE Reachable_KeepHoles(_, _)
(* Reachable without the filter: a hole stays as a group of no choices.    *)
Reachable_KeepHoles(conn, n) ==
    IF n = 0 THEN <<>>
    ELSE Append(Reachable_KeepHoles(conn, n - 1), [caseIdx |-> n, choiceIndices |-> conn[n]])

RECURSIVE Reachable(_, _)
(* connections.filter(Boolean): the groups [caseIdx, choiceIndices] in     *)
(* case-index order, holes left out.                                       *)
Reachable(conn, n) ==
    IF n = 0 THEN <<>>
    ELSE IF conn[n] = <<>>
         THEN Reachable(conn, n - 1)
         ELSE Append(Reachable(conn, n - 1), [caseIdx |-> n, choiceIndices |-> conn[n]])

reachableConnections(cs, bs) ==
    Reachable(connections(cs, bs), Max(Len(cs), Len(bs)))

(* A group whose case index is past the end of the branch list: its branch *)
(* is undefined and the GraphCoord built on it reads undefined.boundary.   *)
BranchMissing(reach, bs) ==
    \E g \in 1..Len(reach) : reach[g].caseIdx > Len(bs)

(* branchCoord with half the element gap between the row and the branch.   *)
branchCoord_HalfGap(group, cs, bs) ==
    LET choices == [k \in 1..Len(group.choiceIndices) |->
                        Leaf("choice", group.choiceIndices[k], cs[group.choiceIndices[k]])]
        choicesGroupCoord == topAlignWithInterval(choices, BranchIntervalX)
    IN GraphCoord(choicesGroupCoord, Leaf("branch", group.caseIdx, bs[group.caseIdx]),
                  ElementIntervalY \div 2)

(* One group: its choices in a row, the shared branch below the row.       *)
branchCoord(group, cs, bs) ==
    LET choices == [k \in 1..Len(group.choiceIndices) |->
                        Leaf("choice", group.choiceIndices[k], cs[group.choiceIndices[k]])]
        choicesGroupCoord == topAlignWithInterval(choices, BranchIntervalX)
    IN GraphCoord(choicesGroupCoord, Leaf("branch", group.caseIdx, bs[group.caseIdx]),
                  ElementIntervalY)

(* ConvergenceRoot with the 200 units of padding of the plain layout.      *)
ConvergenceRoot_Inflated(q, cs, bs, reach) ==
    LET compositedBranchCoords == [g \in 1..Len(reach) |-> branchCoord(reach[g], cs, bs)]
        contentCoord == Inflate(topAlignWithInterval(compositedBranchCoords,
                                                     BranchIntervalX))
    IN GraphCoord(Leaf("question", 1, q), contentCoord, BranchIntervalY * 2)

(* ConvergenceRoot with a single branch interval under the question.       *)
ConvergenceRoot_OneInterval(q, cs, bs, reach) ==
    LET compositedBranchCoords == [g \in 1..Len(reach) |-> branchCoord(reach[g], cs, bs)]
        contentCoord == topAlignWithInterval(compositedBranchCoords, BranchIntervalX)
    IN GraphCoord(Leaf("question", 1, q), contentCoord, BranchIntervalY)

ConvergenceRoot(q, cs, bs, reach) ==
    LET compositedBranchCoords == [g \in 1..Len(reach) |-> branchCoord(reach[g], cs, bs)]
        contentCoord == topAlignWithInterval(compositedBranchCoords, BranchIntervalX)
    IN GraphCoord(Leaf("question", 1, q), contentCoord, BranchIntervalY * 2)

CenterX(node) == node.offset.x + node.boundary.axisX
Bottom(node) == node.offset.y + node.boundary.height

BaselineUnderQuestionPosY(q) == Bottom(q) + BranchIntervalY

(* Lines 6011-6027: question -> baseline, and the baseline from the first  *)
(* to the last node of the choice list.                                    *)
QuestionEdges(q, cs) ==
    LET firstChocie == cs[1]
        lastChoice == cs[Len(cs)]
    IN << Edge(<<"edge", q.id, "q->baseline">>, "Down",
               CenterX(q), Bottom(q), BranchIntervalY, <<>>),
          Edge(<<"edge", q.id, "baseline">>, "Right",
               CenterX(firstChocie), BaselineUnderQuestionPosY(q),
               CenterX(lastChoice) - CenterX(firstChocie), <<>>) >>

(* ChoiceEdges whose lower edge always has the full element gap.           *)
ChoiceEdges_FullGap(q, choice, converged) ==
    << Edge(<<"edge", choice.id, "baseline->choice">>, "Down",
            CenterX(choice), BaselineUnderQuestionPosY(q), BranchIntervalY, <<>>),
       Edge(<<"edge", choice.id, "choice->mid-baseline">>, "Down",
            CenterX(choice), Bottom(choice), ElementIntervalY, <<>>) >>

(* Lines 6031-6047: the two Down edges of one choice.                      *)
ChoiceEdges(q, choice, converged) ==
    << Edge(<<"edge", choice.id, "baseline->choice">>, "Down",
            CenterX(choice), BaselineUnderQuestionPosY(q), BranchIntervalY, <<>>),
       Edge(<<"edge", choice.id, "choice->mid-baseline">>, "Down",
            CenterX(choice), Bottom(choice),
            IF converged THEN ElementIntervalY \div 2 ELSE ElementIntervalY, <<>>) >>

(* MergeEdges that merges a group of a single choice too.                  *)
MergeEdges_Always(group, cs, bs) ==
    LET branch == bs[group.caseIdx]
        cFirst == cs[group.choiceIndices[1]]
        cLast == cs[group.choiceIndices[Len(group.choiceIndices)]]
    IN << Edge(<<"edge", branch.id, "mid-baseline->case">>, "Up",
               CenterX(branch), branch.offset.y, BranchIntervalY, <<>>),
          Edge(<<"edge", branch.id, "converged/mid-baseline">>, "Right",
               CenterX(cFirst), Bottom(cFirst) + ElementIntervalY \div 2,
               CenterX(cLast) - CenterX(cFirst), <<>>) >>

(* Lines 6049-6069: merge converged edges.                                 *)
MergeEdges(group, cs, bs) ==
    IF Len(group.choiceIndices) > 1
    THEN LET branch == bs[group.caseIdx]
             cFirst == cs[group.choiceIndices[1]]
             cLast == cs[group.choiceIndices[Len(group.choiceIndices)]]
         IN << Edge(<<"edge", branch.id, "mid-baseline->case">>, "Up",
                    CenterX(branch), branch.offset.y, BranchIntervalY, <<>>),
               Edge(<<"edge", branch.id, "converged/mid-baseline">>, "Right",
                    CenterX(cFirst), Bottom(cFirst) + ElementIntervalY \div 2,
                    CenterX(cLast) - CenterX(cFirst), <<>>) >>
    ELSE <<>>

RECURSIVE GroupChoiceEdges(_, _, _, _)
GroupChoiceEdges(q, group, cs, n) ==
    IF n = 0 THEN <<>>
    ELSE GroupChoiceEdges(q, group, cs, n - 1)
         \o ChoiceEdges(q, cs[group.choiceIndices[n]], Len(group.choiceIndices) > 1)

RECURSIVE ConnectionEdges(_, _, _, _, _)
(* The loop of lines 6029-6070 over the first n groups.                    *)
ConnectionEdges(q, cs, bs, reach, n) ==
    IF n = 0 THEN <<>>
    ELSE ConnectionEdges(q, cs, bs, reach, n - 1)
         \o GroupChoiceEdges(q, reach[n], cs, Len(reach[n].choiceIndices))
         \o MergeEdges(reach[n], cs, bs)

questionLayouterBranchingWithConvergence(q, cs, bs) ==
    IF q.id = Null.id \/ Len(bs) = 0
    THEN Outcome(EmptyLayout, q, cs, bs)
    ELSE IF DOMAIN convergenceMap(cs, bs) = {}
    THEN questionLayouterBranching(q, cs, bs)
    ELSE LET reach == reachableConnections(cs, bs)
             hiddenMarked == MarkHidden(connections(cs, bs), bs)
         IN IF BranchMissing(reach, bs)
            THEN Outcome(ThrownLayout, q, cs, hiddenMarked)
            ELSE LET rootCoord == ConvergenceRoot(q, cs, hiddenMarked, reach)
                     q2 == moveCoordTo(rootCoord, "question", 1, q)
                     cs2 == MoveNodes(rootCoord, "choice", cs)
                     bs2 == MoveNodes(rootCoord, "branch", hiddenMarked)
                 IN Outcome([boundary |-> rootCoord.boundary,
                             nodeMap |-> [questionNode |-> q.id,
                                          choiceNodes |-> NodeIds(cs),
                                          branchNodes |-> NodeIds(bs)],
                             edges |-> QuestionEdges(q2, cs2)
                                       \o ConnectionEdges(q2, cs2, bs2, reach, Len(reach)),
                             nodes |-> <<>>,
                             thrown |-> FALSE],
                            q2, cs2, bs2)

(* questionLayouter without the test of lines 5886-5888.                   *)
questionLayouter_NoNullCheck(q, cs, bs) ==
    CASE q.data.type = "choice" -> questionLayouterBranchingWithConvergence(q, cs, bs)
      [] q.data.type = "confirm" -> questionLayouterBranching(q, cs, bs)
      [] OTHER -> questionLayouterNonBranching(q, cs, bs)

(* questionLayouter that sends confirm to the convergence-aware layout.    *)
questionLayouter_ConfirmConverges(q, cs, bs) ==
    IF q.id = Null.id
    THEN Outcome(EmptyLayout, q, cs, bs)
    ELSE CASE q.data.type \in {"choice", "confirm"} ->
                  questionLayouterBranchingWithConvergence(q, cs, bs)
           [] OTHER -> questionLayouterNonBranching(q, cs, bs)

(* --------------------------- questionLayouter -------------------------- *)
questionLayouter(q, cs, bs) ==
    IF q.id = Null.id
    THEN Outcome(EmptyLayout, q, cs, bs)
    ELSE CASE q.data.type = "choice" -> questionLayouterBranchingWithConvergence(q, cs, bs)
           [] q.data.type = "confirm" -> questionLayouterBranching(q, cs, bs)
           [] OTHER -> questionLayouterNonBranching(q, cs, bs)

(* ------------------------------ inputs --------------------------------- *)
Types == QuestionTypes \cup {"other", "undefined"}

(* The nodes of a call come in profiles.  Profile 0 is freshly built       *)
(* nodes: uniform sizes, centred axes, a question wider than one pair,     *)
(* offsets (0, 0), nothing hidden.  The other profiles vary widths,        *)
(* heights and axes, make the question narrow, and give the nodes the      *)
(* offsets and some branches the hidden flag of an earlier layout.         *)
QuestionBoundary(p) ==
    IF p = 0 THEN Boundary(300, 48) ELSE Boundary(40, 48 + 2 * p)

ChoiceBoundary(p, i) ==
    IF p = 0 THEN Boundary(100, 40)
    ELSE [width |-> 80 + 20 * ((i * p) % 3),
          height |-> 30 + 10 * ((i + p) % 3),
          axisX |-> 40 - 10 * (i % 2)]

BranchBoundary(p, j) ==
    IF p = 0 THEN Boundary(120, 80)
    ELSE [width |-> 60 + 40 * ((j + p) % 2),
          height |-> 50 + 20 * ((j * p) % 2),
          axisX |-> 30 + 10 * (j % 2)]

(* The offset a node carries before the first call.                        *)
PriorOffset(p, k) == [x |-> p * (7 * k + 3), y |-> p * (11 * k + 5)]

(* The hidden flag a branch carries before the first call.                 *)
PriorHidden(p, j) == p > 0 /\ (j + p) % 2 = 0

MakeQuestion(type, p) ==
    GraphNode(100, QuestionBoundary(p), PriorOffset(p, 0), FALSE,
              [type |-> type, choiceId |-> 0, gotoChoice |-> 0, label |-> 0])

MakeChoice(i, goto, p) ==
    GraphNode(10 + i, ChoiceBoundary(p, i), PriorOffset(p, i), FALSE,
              [type |-> "", choiceId |-> i, gotoChoice |-> goto, label |-> i])

MakeBranch(j, cid, p) ==
    GraphNode(20 + j, BranchBoundary(p, j), PriorOffset(p, MaxChoices + 1 + j),
              PriorHidden(p, j),
              [type |-> "", choiceId |-> cid, gotoChoice |-> 0, label |-> j])

Snapshot == [questionNode |-> questionNode, choiceNodes |-> choiceNodes,
             branchNodes |-> branchNodes, result |-> result]

(* ------------------------------ behaviour ------------------------------ *)
(* Choice i has choiceId i and any gotoChoice, absent (0) included; branch  *)
(* j has choiceId j or repeats the choiceId of the branch before it, so    *)
(* that a choiceId may name two branches, or none.                         *)
BranchChoiceIds(j) == {j, Max(j - 1, 1)}

Init ==
    \E p \in 0..MaxProfile :
    \E nc \in 0..MaxChoices, nb \in 0..MaxBranches :
    \E gotos \in [1..nc -> 0..MaxBranches] :
    \E cids \in { f \in [1..nb -> 1..MaxBranches] : \A j \in 1..nb : f[j] \in BranchChoiceIds(j) } :
        /\ questionNode \in {Null} \cup { MakeQuestion(t, p) : t \in Types }
        /\ choiceNodes = [i \in 1..nc |-> MakeChoice(i, gotos[i], p)]
        /\ branchNodes = [j \in 1..nb |-> MakeBranch(j, cids[j], p)]
        /\ result = EmptyLayout
        /\ calls = 0
        /\ old = [questionNode |-> questionNode, choiceNodes |-> choiceNodes,
                  branchNodes |-> branchNodes, result |-> EmptyLayout]

(* One call of questionLayouter on the nodes as they are now.              *)
Call ==
    /\ calls < MaxCalls
    /\ \E o \in { questionLayouter(questionNode, choiceNodes, branchNodes) } :
          /\ result' = o.layout
          /\ questionNode' = o.q
          /\ choiceNodes' = o.cs
          /\ branchNodes' = o.bs
    /\ old' = Snapshot
    /\ calls' = calls + 1

Next == Call

Spec == Init /\ [][Next]_vars

(* ----------------------- layouts of an edited dialog ------------------- *)
(* The caller lays the same node objects out again after the dialog was    *)
(* edited: the nodes keep the offsets and hidden flags of the earlier      *)
(* layout, a choice's gotoChoice or the question's type is new.  One edit  *)
(* between two layouts.                                                    *)
DataOf(nodes) == [i \in 1..Len(nodes) |-> nodes[i].data]

Unedited ==
    /\ questionNode.data = old.questionNode.data
    /\ DataOf(choiceNodes) = DataOf(old.choiceNodes)

InitEdit ==
    \E nc \in 1..MaxChoices, nb \in 1..MaxBranches :
    \E gotos \in [1..nc -> 0..MaxBranches] :
        /\ questionNode = MakeQuestion("choice", MaxProfile)
        /\ choiceNodes = [i \in 1..nc |-> MakeChoice(i, gotos[i], MaxProfile)]
        /\ branchNodes = [j \in 1..nb |-> MakeBranch(j, j, MaxProfile)]
        /\ result = EmptyLayout
        /\ calls = 0
        /\ old = [questionNode |-> questionNode, choiceNodes |-> choiceNodes,
                  branchNodes |-> branchNodes, result |-> EmptyLayout]

(* A choice gets another gotoChoice, or loses it.                          *)
Retarget ==
    /\ calls > 0
    /\ calls < MaxCalls
    /\ Unedited
    /\ \E i \in 1..Len(choiceNodes), g \in 0..MaxBranches :
          /\ g # choiceNodes[i].data.gotoChoice
          /\ choiceNodes' = [choiceNodes EXCEPT ![i].data.gotoChoice = g]
    /\ UNCHANGED <<questionNode, branchNodes, result, calls, old>>

(* The question becomes one of another type.                               *)
Retype ==
    /\ calls > 0
    /\ calls < MaxCalls
    /\ Unedited
    /\ \E t \in QuestionTypes \ {questionNode.data.type} :
          questionNode' = [questionNode EXCEPT !.data.type = t]
    /\ UNCHANGED <<choiceNodes, branchNodes, result, calls, old>>

NextEdit == Call \/ Retarget \/ Retype

SpecEdit == InitEdit /\ [][NextEdit]_vars

(* ------------------------ vocabulary of the claims --------------------- *)
(* The state before the latest call is old; the latest call's layout is    *)
(* result.                                                                 *)
Called == calls > 0
Returned == calls > 0 /\ ~result.thrown
PreType == old.questionNode.data.type
NodesUnchanged ==
    /\ questionNode = old.questionNode
    /\ choiceNodes = old.choiceNodes
    /\ branchNodes = old.branchNodes

SetMin(S) == CHOOSE m \in S : \A k \in S : m <= k
SetMax(S) == CHOOSE m \in S : \A k \in S : m >= k

(* The branches a gotoChoice value names.                                  *)
MatchSet(bs, g) == { j \in 1..Len(bs) : bs[j].data.choiceId = g }

(* Choice i has a gotoChoice pointing elsewhere.                           *)
PointsElsewhere(cs, bs, i) ==
    /\ cs[i].data.gotoChoice # 0
    /\ cs[i].data.gotoChoice # cs[i].data.choiceId
    /\ MatchSet(bs, cs[i].data.gotoChoice) # {}

EffectiveCase(cs, bs, i) ==
    IF PointsElsewhere(cs, bs, i) THEN SetMin(MatchSet(bs, cs[i].data.gotoChoice)) ELSE i

(* The choices mapped to branch j.                                         *)
Members(cs, bs, j) == { i \in 1..Len(cs) : EffectiveCase(cs, bs, i) = j }

HasConvergence(cs, bs) == \E i \in 1..Len(cs) : PointsElsewhere(cs, bs, i)

(* The latest call took the convergence-aware layout to its end.           *)
ConvergedCall ==
    /\ Returned
    /\ PreType = "choice"
    /\ Len(old.branchNodes) > 0
    /\ HasConvergence(old.choiceNodes, old.branchNodes)

EdgesWith(dir) == { k \in 1..Len(result.edges) : result.edges[k].direction = dir }

EdgesWithId(id) == { k \in 1..Len(result.edges) : result.edges[k].id = id }

IsZeroLayout(l) ==
    /\ l.boundary.width = 0
    /\ l.boundary.height = 0
    /\ l.edges = <<>>
    /\ l.nodes = <<>>

(* ------------------------------- claims -------------------------------- *)
(* C1: a call with questionNode null returns the zero layout (zero-sized   *)
(* boundary, no edges, no nodes) and changes no choice or branch node.     *)
C1_NullQuestionZeroLayout ==
    (Called /\ old.questionNode = Null) =>
        /\ ~result.thrown
        /\ IsZeroLayout(result)
        /\ NodesUnchanged

C1_Witness ==
    /\ Called
    /\ old.questionNode = Null
    /\ Len(old.choiceNodes) = MaxChoices
    /\ Len(old.branchNodes) > 0
    /\ HasConvergence(old.choiceNodes, old.branchNodes)

(* C2: for a question whose type is neither choice nor confirm the layout  *)
(* is the fixed 300 x 286 boundary, no edges, no nodes, a nodeMap with the *)
(* question node only, and no node is changed.                             *)
C2_NonBranchingFixed ==
    (Called /\ old.questionNode # Null /\ PreType \notin {"choice", "confirm"}) =>
        /\ ~result.thrown
        /\ result.boundary.width = 300
        /\ result.boundary.height = 286
        /\ result.edges = <<>>
        /\ result.nodes = <<>>
        /\ result.nodeMap = [questionNode |-> old.questionNode.id]
        /\ NodesUnchanged

C2_Witness ==
    /\ Called
    /\ PreType = "undefined"
    /\ Len(old.choiceNodes) > 1
    /\ Len(old.branchNodes) > 1
    /\ HasConvergence(old.choiceNodes, old.branchNodes)
    /\ result.boundary.width = 300

(* C3: for a choice question in which no gotoChoice points elsewhere, the  *)
(* layout, the final offset of every node and the hidden flags are those   *)
(* of the plain branching layout on the same inputs.                       *)
C3_NoConvergenceIsPlain ==
    (/\ Called
     /\ old.questionNode # Null
     /\ PreType = "choice"
     /\ ~HasConvergence(old.choiceNodes, old.branchNodes)) =>
        LET plain == questionLayouterBranching(old.questionNode, old.choiceNodes,
                                               old.branchNodes)
        IN /\ result = plain.layout
           /\ questionNode = plain.q
           /\ choiceNodes = plain.cs
           /\ branchNodes = plain.bs
           /\ \A j \in 1..Len(branchNodes) :
                 branchNodes[j].hidden = old.branchNodes[j].hidden

(* A choice with its own choiceId as gotoChoice, another with a gotoChoice *)
(* that names no branch; the plain layout placed the nodes.                *)
C3_Witness ==
    /\ Called
    /\ PreType = "choice"
    /\ ~HasConvergence(old.choiceNodes, old.branchNodes)
    /\ Len(old.choiceNodes) > 1
    /\ Len(old.branchNodes) > 1
    /\ old.choiceNodes[1].data.gotoChoice = 1
    /\ old.choiceNodes[2].data.gotoChoice = 3
    /\ Len(result.edges) > 2
    /\ choiceNodes # old.choiceNodes

(* C4: in a convergence-aware layout a branch with no choice mapped to it  *)
(* is hidden afterwards; a branch with a choice mapped to it keeps the     *)
(* hidden flag it had and, when the layout is returned, is placed inside   *)
(* the returned boundary, one element gap below its group of choices.      *)
C4_Positioned(j) ==
    LET b == branchNodes[j]
        group == Members(old.choiceNodes, old.branchNodes, j)
    IN /\ b.offset.x >= 0
       /\ b.offset.x + b.boundary.width <= result.boundary.width
       /\ b.offset.y + b.boundary.height <= result.boundary.height
       /\ \E i \in group : b.offset.y = Bottom(choiceNodes[i]) + ElementIntervalY
       /\ \A i \in group : b.offset.y >= Bottom(choiceNodes[i]) + ElementIntervalY

C4_HiddenIffUnmapped ==
    (/\ Called
     /\ old.questionNode # Null
     /\ PreType = "choice"
     /\ Len(old.branchNodes) > 0
     /\ HasConvergence(old.choiceNodes, old.branchNodes)) =>
        \A j \in 1..Len(old.branchNodes) :
            IF Members(old.choiceNodes, old.branchNodes, j) = {}
            THEN branchNodes[j].hidden = TRUE
            ELSE /\ branchNodes[j].hidden = old.branchNodes[j].hidden
                 /\ Returned => C4_Positioned(j)

(* An unreachable branch that was visible and a reachable one that was     *)
(* hidden before the call, whose offset the call changed.                  *)
C4_Witness ==
    /\ ConvergedCall
    /\ \E j \in 1..Len(old.branchNodes) :
          /\ Members(old.choiceNodes, old.branchNodes, j) = {}
          /\ ~old.branchNodes[j].hidden
          /\ branchNodes[j].hidden
    /\ \E j \in 1..Len(old.branchNodes) :
          /\ Cardinality(Members(old.choiceNodes, old.branchNodes, j)) > 1
          /\ old.branchNodes[j].hidden
          /\ branchNodes[j].hidden
          /\ branchNodes[j].offset # old.branchNodes[j].offset

(* C5: every call completes and returns a layout; none ends in a thrown    *)
(* failure on a node that does not exist.                                  *)
C5_NeverThrows == Called => ~result.thrown

(* C6: for a confirm question with branches, more than one branch gives    *)
(* exactly one Right edge, from the first branch's centre to the last's at *)
(* the baseline height; a single branch gives no Right edge.               *)
C6_BaselineEdge ==
    (/\ Called
     /\ old.questionNode # Null
     /\ PreType = "confirm"
     /\ Len(old.branchNodes) > 0) =>
        IF Len(branchNodes) > 1
        THEN /\ Cardinality(EdgesWith("Right")) = 1
             /\ \A k \in EdgesWith("Right") :
                   /\ result.edges[k].x = CenterX(branchNodes[1])
                   /\ result.edges[k].y = Bottom(questionNode) + BranchIntervalY
                   /\ result.edges[k].length =
                         CenterX(branchNodes[Len(branchNodes)]) - CenterX(branchNodes[1])
        ELSE EdgesWith("Right") = {}

C6_Witness ==
    /\ Called
    /\ PreType = "confirm"
    /\ Len(old.branchNodes) = MaxBranches
    /\ Len(old.choiceNodes) = MaxChoices
    /\ \E k \in EdgesWith("Right") : result.edges[k].length > 0

(* C7 as stated: n choices and n branches, n > 1, of a confirm question    *)
(* give n + 1 edges.                                                       *)
C7_Original ==
    (/\ Called
     /\ old.questionNode # Null
     /\ PreType = "confirm"
     /\ Len(old.choiceNodes) = Len(old.branchNodes)
     /\ Len(old.branchNodes) > 1) =>
        Len(result.edges) = Len(old.branchNodes) + 1

(* C7 amended: the edge list has n + 2 edges: the question's Down edge to  *)
(* the baseline, one Down edge per branch and one Right baseline edge.     *)
C7_EdgeCount ==
    (/\ Called
     /\ old.questionNode # Null
     /\ PreType = "confirm"
     /\ Len(old.choiceNodes) = Len(old.branchNodes)
     /\ Len(old.branchNodes) > 1) =>
        /\ Len(result.edges) = Len(old.branchNodes) + 2
        /\ Cardinality(EdgesWithId(<<"edge", questionNode.id,
                                     "switch/condition->switch">>)) = 1
        /\ \A j \in 1..Len(branchNodes) :
              Cardinality(EdgesWithId(<<"edge", questionNode.id, "case/baseline->",
                                        branchNodes[j].id>>)) = 1
        /\ Cardinality(EdgesWith("Right")) = 1
        /\ Cardinality(EdgesWith("Down")) = Len(old.branchNodes) + 1

C7_Witness ==
    /\ Called
    /\ PreType = "confirm"
    /\ Len(old.choiceNodes) = 3
    /\ Len(old.branchNodes) = 3
    /\ Len(result.edges) = 5

(* C8: in a convergence-aware layout a group gets an Up edge and a         *)
(* mid-baseline Right edge, one of each, exactly when it has more than one *)
(* choice; the Right edge lies half an element gap below the bottom of the *)
(* group's first choice and spans from the first to the last choice's      *)
(* centre.  With choices [A,B,C], A.gotoChoice = C.choiceId and branches   *)
(* [caseA,caseB,caseC]: caseA is hidden, the groups are caseB:[B] and      *)
(* caseC:[A,C], and only caseC gets the two edges.                         *)
C8_UpId(j) == <<"edge", branchNodes[j].id, "mid-baseline->case">>
C8_RightId(j) == <<"edge", branchNodes[j].id, "converged/mid-baseline">>

C8_ConvergedGroups ==
    { j \in 1..Len(old.branchNodes) :
        Cardinality(Members(old.choiceNodes, old.branchNodes, j)) > 1 }

C8_Example ==
    /\ Len(old.choiceNodes) = 3
    /\ Len(old.branchNodes) = 3
    /\ old.choiceNodes[1].data.gotoChoice = 3
    /\ old.choiceNodes[2].data.gotoChoice = 0
    /\ old.choiceNodes[3].data.gotoChoice = 0
    /\ \A j \in 1..3 : old.branchNodes[j].data.choiceId = j
    /\ ~old.branchNodes[1].hidden

C8_MergeEdges ==
    ConvergedCall =>
        /\ \A j \in 1..Len(branchNodes) :
              LET group == Members(old.choiceNodes, old.branchNodes, j)
                  n == IF Cardinality(group) > 1 THEN 1 ELSE 0
              IN /\ Cardinality(EdgesWithId(C8_UpId(j))) = n
                 /\ Cardinality(EdgesWithId(C8_RightId(j))) = n
                 /\ \A k \in EdgesWithId(C8_UpId(j)) : result.edges[k].direction = "Up"
                 /\ \A k \in EdgesWithId(C8_RightId(j)) :
                       LET cFirst == choiceNodes[SetMin(group)]
                           cLast == choiceNodes[SetMax(group)]
                       IN /\ result.edges[k].direction = "Right"
                          /\ result.edges[k].y = Bottom(cFirst) + ElementIntervalY \div 2
                          /\ result.edges[k].x = CenterX(cFirst)
                          /\ result.edges[k].length = CenterX(cLast) - CenterX(cFirst)
        /\ Cardinality(EdgesWith("Up")) = Cardinality(C8_ConvergedGroups)
        /\ Cardinality(EdgesWith("Right")) = 1 + Cardinality(C8_ConvergedGroups)
        /\ C8_Example =>
              /\ branchNodes[1].hidden
              /\ reachableConnections(old.choiceNodes, old.branchNodes)
                    = << [caseIdx |-> 2, choiceIndices |-> <<2>>],
                         [caseIdx |-> 3, choiceIndices |-> <<1, 3>>] >>
              /\ \A k \in EdgesWith("Up") : result.edges[k].id = C8_UpId(3)
              /\ EdgesWithId(C8_RightId(3)) # {}
              /\ EdgesWithId(C8_RightId(2)) = {}

C8_Witness ==
    /\ ConvergedCall
    /\ C8_Example
    /\ Cardinality(EdgesWith("Up")) = 1
    /\ \E k \in EdgesWithId(C8_RightId(3)) : result.edges[k].length > 0

(* C9: a second call on the nodes as the first call left them returns the  *)
(* same boundary and the same edge list and leaves every node's offset and *)
(* hidden flag as they were after the first call.                          *)
C9_Idempotent ==
    (calls >= 2 /\ ~result.thrown /\ ~old.result.thrown) =>
        /\ result.boundary = old.result.boundary
        /\ result.edges = old.result.edges
        /\ NodesUnchanged

C9_Witness ==
    /\ calls = 2
    /\ ConvergedCall
    /\ Len(old.branchNodes) > Len(old.choiceNodes)
    /\ \E j \in 1..Len(branchNodes) : branchNodes[j].hidden
    /\ Len(result.edges) > 4
    /\ result.edges = old.result.edges

(* C10: in a convergence-aware layout the Right baseline edge beneath the  *)
(* question reaches the centre of every choice.                            *)
C10_BaselineSpansAllChoices ==
    ConvergedCall =>
        \A k \in EdgesWithId(<<"edge", questionNode.id, "baseline">>) :
            \A i \in 1..Len(choiceNodes) :
                /\ result.edges[k].x <= CenterX(choiceNodes[i])
                /\ CenterX(choiceNodes[i]) <= result.edges[k].x + result.edges[k].length

(* C11: a confirm or choice question with an empty branch list gets the    *)
(* empty layout for every choice list, and no node is changed.             *)
C11_NoBranchesEmptyLayout ==
    (/\ Called
     /\ old.questionNode # Null
     /\ PreType \in {"confirm", "choice"}
     /\ Len(old.branchNodes) = 0) =>
        /\ ~result.thrown
        /\ IsZeroLayout(result)
        /\ NodesUnchanged

C11_Witness ==
    /\ Called
    /\ PreType = "confirm"
    /\ Len(old.branchNodes) = 0
    /\ Len(old.choiceNodes) = MaxChoices
    /\ old.choiceNodes[1].data.gotoChoice = 2
    /\ IsZeroLayout(result)

(* C12: the returned boundary and edge list do not depend on the offsets   *)
(* the nodes carried before the call: they are those of the same call on   *)
(* the same nodes with every offset at (0, 0).                             *)
C12_ZeroOffset(node) == [node EXCEPT !.offset = [x |-> 0, y |-> 0]]

C12_ZeroOffsets(nodes) == [i \in 1..Len(nodes) |-> C12_ZeroOffset(nodes[i])]

C12_OffsetIndependent ==
    Returned =>
        LET fresh == questionLayouter(C12_ZeroOffset(old.questionNode),
                                      C12_ZeroOffsets(old.choiceNodes),
                                      C12_ZeroOffsets(old.branchNodes)).layout
        IN /\ result.boundary = fresh.boundary
           /\ result.edges = fresh.edges

(* C13: for a confirm question with n choices and n branches the boundary  *)
(* height is question height + 2 x BranchIntervalY + branch-row height +   *)
(* 200, the branch-row height being the largest choice height +            *)
(* ElementInterval.y + branch height over the pairs.                       *)
C13_RowHeight ==
    SetMax({ old.choiceNodes[i].boundary.height + ElementIntervalY
             + old.branchNodes[i].boundary.height : i \in 1..Len(old.branchNodes) })

C13_BoundaryHeight ==
    (/\ Called
     /\ old.questionNode # Null
     /\ PreType = "confirm"
     /\ Len(old.choiceNodes) = Len(old.branchNodes)
     /\ Len(old.branchNodes) > 0) =>
        result.boundary.height =
            old.questionNode.boundary.height + 2 * BranchIntervalY + C13_RowHeight + 200

(* Three pairs of different heights.                                       *)
C13_Witness ==
    /\ Called
    /\ PreType = "confirm"
    /\ Len(old.choiceNodes) = 3
    /\ Len(old.branchNodes) = 3
    /\ \E i, j \in 1..3 :
          old.choiceNodes[i].boundary.height + old.branchNodes[i].boundary.height
          < old.choiceNodes[j].boundary.height + old.branchNodes[j].boundary.height
    /\ result.boundary.height > 200

C15_SameButOffsetHidden(now, before) ==
    /\ now.id = before.id
    /\ now.boundary = before.boundary
    /\ now.data = before.data

C15_Frame ==
    Called =>
        /\ C15_SameButOffsetHidden(questionNode, old.questionNode)
        /\ Len(choiceNodes) = Len(old.choiceNodes)
        /\ Len(branchNodes) = Len(old.branchNodes)
        /\ \A i \in 1..Len(choiceNodes) :
              C15_SameButOffsetHidden(choiceNodes[i], old.choiceNodes[i])
        /\ \A j \in 1..Len(branchNodes) :
              C15_SameButOffsetHidden(branchNodes[j], old.branchNodes[j])

(* A plain branching layout of a single pair, whose inflated content is    *)
(* that one pair, has moved the nodes.                                     *)
C15_Witness ==
    /\ Called
    /\ PreType = "confirm"
    /\ Len(old.choiceNodes) = 1
    /\ Len(old.branchNodes) = 1
    /\ branchNodes[1].offset # old.branchNodes[1].offset
    /\ result.boundary.height > 200

(* C16 as stated: after a branching layout with a non-empty result, of two *)
(* positioned choices the one earlier in the list lies further left.       *)
C16_Positioned ==
    IF ConvergedCall
    THEN 1..Len(choiceNodes)
    ELSE 1..Min(Len(choiceNodes), Len(branchNodes))

C16_BranchingCall ==
    /\ Returned
    /\ old.questionNode # Null
    /\ PreType \in {"confirm", "choice"}
    /\ Len(old.branchNodes) > 0

C16_Original ==
    C16_BranchingCall =>
        \A i, j \in C16_Positioned :
            i < j => choiceNodes[i].offset.x < choiceNodes[j].offset.x

(* C16 amended: the paired choices of a plain layout lie left to right in  *)
(* list order; in a convergence-aware layout the groups lie left to right  *)
(* in case-index order and the choices of one group in list order.         *)
C16_Before(i, j) ==
    IF ConvergedCall
    THEN LET ci == EffectiveCase(old.choiceNodes, old.branchNodes, i)
             cj == EffectiveCase(old.choiceNodes, old.branchNodes, j)
         IN ci < cj \/ (ci = cj /\ i < j)
    ELSE i < j

C16_GroupOrder ==
    C16_BranchingCall =>
        \A i, j \in C16_Positioned :
            C16_Before(i, j) => choiceNodes[i].offset.x < choiceNodes[j].offset.x

(* Choice 1 redirected to the last branch lies right of choice 2.          *)
C16_Witness ==
    /\ ConvergedCall
    /\ Len(old.choiceNodes) = 3
    /\ EffectiveCase(old.choiceNodes, old.branchNodes, 1) = 3
    /\ EffectiveCase(old.choiceNodes, old.branchNodes, 2) = 2
    /\ choiceNodes[2].offset.x < choiceNodes[1].offset.x
    /\ choiceNodes[1].offset.x < choiceNodes[3].offset.x

(* C17: for a confirm question gotoChoice and choiceId have no effect:     *)
(* boundary, edges and every offset are those of the call on the same      *)
(* nodes without these values, and no hidden flag changes.                 *)
C17_Erase(nodes) ==
    [i \in 1..Len(nodes) |->
        [nodes[i] EXCEPT !.data.gotoChoice = 0, !.data.choiceId = 0]]

C17_Offsets(nodes) == [i \in 1..Len(nodes) |-> nodes[i].offset]

C17_Hidden(nodes) == [i \in 1..Len(nodes) |-> nodes[i].hidden]

C17_ConfirmIgnoresIds ==
    (Called /\ old.questionNode # Null /\ PreType = "confirm") =>
        LET plain == questionLayouterBranching(old.questionNode,
                                               C17_Erase(old.choiceNodes),
                                               C17_Erase(old.branchNodes))
        IN /\ ~result.thrown
           /\ result.boundary = plain.layout.boundary
           /\ result.edges = plain.layout.edges
           /\ questionNode.offset = plain.q.offset
           /\ C17_Offsets(choiceNodes) = C17_Offsets(plain.cs)
           /\ C17_Offsets(branchNodes) = C17_Offsets(plain.bs)
           /\ C17_Hidden(branchNodes) = C17_Hidden(old.branchNodes)
           /\ C17_Hidden(choiceNodes) = C17_Hidden(old.choiceNodes)

(* A confirm question whose choices would redirect, were it a choice       *)
(* question, with a branch that would be unreachable and is visible.       *)
C17_Witness ==
    /\ Called
    /\ PreType = "confirm"
    /\ HasConvergence(old.choiceNodes, old.branchNodes)
    /\ \E j \in 1..Len(old.branchNodes) :
          /\ Members(old.choiceNodes, old.branchNodes, j) = {}
          /\ ~branchNodes[j].hidden
    /\ Len(result.edges) > 3

(* C18: the convergence map has an entry for a choice exactly when its     *)
(* gotoChoice is present, differs from its own choiceId and names a        *)
(* branch; the entry is the lowest index of such a branch; every other     *)
(* choice falls through to its own index.                                  *)
C18_ChoiceCall ==
    /\ Called
    /\ old.questionNode # Null
    /\ PreType = "choice"
    /\ Len(old.branchNodes) > 0

C18_ConvergenceMap ==
    C18_ChoiceCall =>
        LET cs == old.choiceNodes
            bs == old.branchNodes
            map == convergenceMap(cs, bs)
        IN /\ DOMAIN map = { i \in 1..Len(cs) : PointsElsewhere(cs, bs, i) }
           /\ \A i \in DOMAIN map :
                 /\ bs[map[i]].data.choiceId = cs[i].data.gotoChoice
                 /\ \A j \in 1..Len(bs) :
                       bs[j].data.choiceId = cs[i].data.gotoChoice => map[i] <= j
           /\ \A i \in 1..Len(cs) :
                 (\/ cs[i].data.gotoChoice = 0
                  \/ cs[i].data.gotoChoice = cs[i].data.choiceId
                  \/ MatchSet(bs, cs[i].data.gotoChoice) = {}) =>
                     /\ i \notin DOMAIN map
                     /\ iCase(map, i) = i

(* One choice names a choiceId that two branches carry, one names its own, *)
(* one names a choiceId no branch carries.                                 *)
C18_Witness ==
    /\ C18_ChoiceCall
    /\ \E i \in 1..Len(old.choiceNodes) :
          Cardinality(MatchSet(old.branchNodes, old.choiceNodes[i].data.gotoChoice)) > 1
          /\ PointsElsewhere(old.choiceNodes, old.branchNodes, i)
    /\ \E i \in 1..Len(old.choiceNodes) :
          /\ old.choiceNodes[i].data.gotoChoice # 0
          /\ old.choiceNodes[i].data.gotoChoice = old.choiceNodes[i].data.choiceId
    /\ \E i \in 1..Len(old.choiceNodes) :
          /\ old.choiceNodes[i].data.gotoChoice # 0
          /\ old.choiceNodes[i].data.gotoChoice # old.choiceNodes[i].data.choiceId
          /\ MatchSet(old.branchNodes, old.choiceNodes[i].data.gotoChoice) = {}

(* C19: in the convergence-aware layout the groups partition the choices:  *)
(* every choice is in exactly one group, the one of its effective case     *)
(* index; the groups are in strictly increasing case-index order and each  *)
(* group's choices in strictly increasing order.                           *)
C19_Slots(reach, i) ==
    { gk \in (1..Len(reach)) \X (1..MaxChoices + 1) :
        /\ gk[2] <= Len(reach[gk[1]].choiceIndices)
        /\ reach[gk[1]].choiceIndices[gk[2]] = i }

C19_GroupsPartition ==
    (C18_ChoiceCall /\ HasConvergence(old.choiceNodes, old.branchNodes)) =>
        LET cs == old.choiceNodes
            bs == old.branchNodes
            reach == reachableConnections(cs, bs)
        IN /\ \A i \in 1..Len(cs) :
                 /\ Cardinality(C19_Slots(reach, i)) = 1
                 /\ \A gk \in C19_Slots(reach, i) :
                       reach[gk[1]].caseIdx = EffectiveCase(cs, bs, i)
           /\ \A g \in 1..Len(reach) :
                 /\ Len(reach[g].choiceIndices) > 0
                 /\ \A k \in 1..Len(reach[g].choiceIndices) :
                       reach[g].choiceIndices[k] \in 1..Len(cs)
                 /\ \A k \in 1..(Len(reach[g].choiceIndices) - 1) :
                       reach[g].choiceIndices[k] < reach[g].choiceIndices[k + 1]
           /\ \A g \in 1..(Len(reach) - 1) : reach[g].caseIdx < reach[g + 1].caseIdx

(* Two groups, one of them of two choices; the layout came back.           *)
C19_Witness ==
    /\ ConvergedCall
    /\ Len(reachableConnections(old.choiceNodes, old.branchNodes)) = 2
    /\ \E j \in 1..Len(old.branchNodes) :
          Cardinality(Members(old.choiceNodes, old.branchNodes, j)) = 2
    /\ Len(old.choiceNodes) = 3

(* C20: in the convergence-aware layout every choice gets exactly two Down *)
(* edges: one from the baseline of length BranchIntervalY, one from its    *)
(* bottom-centre of length ElementInterval.y / 2 if its group has more     *)
(* than one choice and ElementInterval.y otherwise; the list has           *)
(* 2 + 2 x choices + 2 x converged groups edges.                           *)
C20_GroupSize(i) ==
    Cardinality(Members(old.choiceNodes, old.branchNodes,
                        EffectiveCase(old.choiceNodes, old.branchNodes, i)))

C20_ConvergedGroups ==
    { j \in 1..Len(old.branchNodes) :
        Cardinality(Members(old.choiceNodes, old.branchNodes, j)) > 1 }

C21_UpperEdgeMeetsChoice ==
    ConvergedCall =>
        \A i \in 1..Len(choiceNodes) :
            /\ choiceNodes[i].offset.y = Bottom(questionNode) + 2 * BranchIntervalY
            /\ \A k \in EdgesWithId(<<"edge", choiceNodes[i].id, "baseline->choice">>) :
                  /\ result.edges[k].x = CenterX(choiceNodes[i])
                  /\ result.edges[k].y = Bottom(questionNode) + BranchIntervalY
                  /\ result.edges[k].y + result.edges[k].length = choiceNodes[i].offset.y

(* Three choices of three heights in two groups, all moved by the call.    *)
C21_Witness ==
    /\ ConvergedCall
    /\ Len(old.choiceNodes) = 3
    /\ Len(reachableConnections(old.choiceNodes, old.branchNodes)) = 2
    /\ Cardinality({ choiceNodes[i].boundary.height : i \in 1..3 }) = 3
    /\ \A i \in 1..3 :
          /\ choiceNodes[i].offset # old.choiceNodes[i].offset
          /\ EdgesWithId(<<"edge", choiceNodes[i].id, "baseline->choice">>) # {}

(* C22: for every converged group the Up edge from the branch's top meets  *)
(* the group's mid-baseline: branch.offset.y - the Up edge's length is the *)
(* y of the group's Right edge, and the lower Down edge of every choice of *)
(* the group ends at that y, whatever the heights of the choices.          *)
C22_MidBaselineMeets ==
    ConvergedCall =>
        \A j \in 1..Len(branchNodes) :
            Cardinality(Members(old.choiceNodes, old.branchNodes, j)) > 1 =>
                \A r \in EdgesWithId(<<"edge", branchNodes[j].id, "converged/mid-baseline">>) :
                    /\ \A u \in EdgesWithId(<<"edge", branchNodes[j].id, "mid-baseline->case">>) :
                          branchNodes[j].offset.y - result.edges[u].length = result.edges[r].y
                    /\ \A i \in Members(old.choiceNodes, old.branchNodes, j) :
                          \A d \in EdgesWithId(<<"edge", choiceNodes[i].id,
                                                 "choice->mid-baseline">>) :
                              result.edges[d].y + result.edges[d].length = result.edges[r].y

(* C23: in the plain branching layout branchNodes[i] is attached below     *)
(* choiceNodes[i] for exactly the indices below the smaller of the two     *)
(* list lengths: same centre-x, branch top one ElementInterval.y below the *)
(* choice's bottom, all paired choices at the same offset.y, consecutive   *)
(* pairs BranchIntervalX apart; a node past that index is not placed.      *)
C23_PlainCall ==
    /\ Returned
    /\ old.questionNode # Null
    /\ Len(old.branchNodes) > 0
    /\ \/ PreType = "confirm"
       \/ PreType = "choice" /\ ~HasConvergence(old.choiceNodes, old.branchNodes)

C23_PairLeft(i) == Min(choiceNodes[i].offset.x, branchNodes[i].offset.x)

C23_PairRight(i) ==
    Max(choiceNodes[i].offset.x + choiceNodes[i].boundary.width,
        branchNodes[i].offset.x + branchNodes[i].boundary.width)

C23_PositionalPairs ==
    C23_PlainCall =>
        LET m == Min(Len(choiceNodes), Len(branchNodes))
        IN /\ \A i \in 1..m :
                 /\ CenterX(branchNodes[i]) = CenterX(choiceNodes[i])
                 /\ branchNodes[i].offset.y = Bottom(choiceNodes[i]) + ElementIntervalY
                 /\ choiceNodes[i].offset.y = choiceNodes[1].offset.y
           /\ \A i \in 1..(m - 1) :
                 C23_PairLeft(i + 1) - C23_PairRight(i) = BranchIntervalX
           /\ \A i \in (m + 1)..Len(choiceNodes) :
                 choiceNodes[i].offset = old.choiceNodes[i].offset
           /\ \A j \in (m + 1)..Len(branchNodes) :
                 branchNodes[j].offset = old.branchNodes[j].offset

(* Two pairs of different sizes and a third choice without a branch, which *)
(* keeps the offset it came with.                                          *)
C23_Witness ==
    /\ C23_PlainCall
    /\ Len(old.choiceNodes) = 3
    /\ Len(old.branchNodes) = 2
    /\ choiceNodes[1].boundary.height # choiceNodes[2].boundary.height
    /\ choiceNodes[1].offset # old.choiceNodes[1].offset
    /\ branchNodes[2].offset # old.branchNodes[2].offset
    /\ choiceNodes[3].offset.x > 0
    /\ choiceNodes[3].offset = old.choiceNodes[3].offset

C25_Marked == { j \in 1..Len(old.branchNodes) :
                   Members(old.choiceNodes, old.branchNodes, j) = {} }

C25_Enlarged ==
    [j \in 1..Len(old.branchNodes) |->
        IF j \in C25_Marked
        THEN [old.branchNodes[j] EXCEPT !.boundary = Boundary(1000, 1000)]
        ELSE old.branchNodes[j]]

C25_Touches(e, b) ==
    \/ e.id = <<"edge", b.id, "mid-baseline->case">>
    \/ e.id = <<"edge", b.id, "converged/mid-baseline">>
    \/ e.x = CenterX(b) /\ e.y = b.offset.y
    \/ e.direction = "Down" /\ e.x = CenterX(b) /\ e.y + e.length = b.offset.y

C25_HiddenExcluded ==
    ConvergedCall =>
        /\ \A j \in C25_Marked :
              /\ branchNodes[j].hidden
              /\ branchNodes[j].offset = old.branchNodes[j].offset
              /\ \A k \in 1..Len(result.edges) :
                    ~C25_Touches(result.edges[k], branchNodes[j])
        /\ result = questionLayouterBranchingWithConvergence(
                        old.questionNode, old.choiceNodes, C25_Enlarged).layout

(* A visible branch with an offset from an earlier layout loses its only   *)
(* choice to another branch, which is placed.                              *)
C25_Witness ==
    /\ ConvergedCall
    /\ \E j \in C25_Marked :
          /\ ~old.branchNodes[j].hidden
          /\ branchNodes[j].hidden
          /\ old.branchNodes[j].offset.x > 0
          /\ j <= Len(old.choiceNodes)
    /\ \E j \in 1..Len(branchNodes) :
          /\ j \notin C25_Marked
          /\ branchNodes[j].offset # old.branchNodes[j].offset

(* C26: every edge of a returned layout has a non-negative length.         *)
C26_NonNegativeLengths ==
    Returned => \A k \in 1..Len(result.edges) : result.edges[k].length >= 0

(* C27: in the convergence-aware layout every group's case index is an     *)
(* index of the branch list, so that every group has a branch node.        *)
C27_CaseIndexValid ==
    (C18_ChoiceCall /\ HasConvergence(old.choiceNodes, old.branchNodes)) =>
        LET reach == reachableConnections(old.choiceNodes, old.branchNodes)
        IN \A g \in 1..Len(reach) : reach[g].caseIdx \in 1..Len(old.branchNodes)

(* C28: in the convergence-aware layout, for every group of exactly one    *)
(* choice, the choice's lower Down edge (length ElementInterval.y) ends at *)
(* the top-centre of the group's branch: same centre-x, and choice bottom  *)
(* + ElementInterval.y = branch.offset.y.                                  *)
C28_SingleChoiceMeetsBranch ==
    ConvergedCall =>
        \A j \in 1..Len(branchNodes) :
            \A i \in Members(old.choiceNodes, old.branchNodes, j) :
                Members(old.choiceNodes, old.branchNodes, j) = {i} =>
                    /\ CenterX(choiceNodes[i]) = CenterX(branchNodes[j])
                    /\ Bottom(choiceNodes[i]) + ElementIntervalY = branchNodes[j].offset.y
                    /\ \A d \in EdgesWithId(<<"edge", choiceNodes[i].id,
                                              "choice->mid-baseline">>) :
                          /\ result.edges[d].x = CenterX(branchNodes[j])
                          /\ result.edges[d].y + result.edges[d].length
                             = branchNodes[j].offset.y

(* A redirected choice alone in the group of another index's branch, of a  *)
(* different width, beside a converged group.                              *)
C28_Witness ==
    /\ ConvergedCall
    /\ \E j \in 1..Len(branchNodes) : \E i \in 1..Len(choiceNodes) :
          /\ Members(old.choiceNodes, old.branchNodes, j) = {i}
          /\ i # j
          /\ choiceNodes[i].boundary.width # branchNodes[j].boundary.width
          /\ EdgesWithId(<<"edge", choiceNodes[i].id, "choice->mid-baseline">>) # {}
    /\ \E j \in 1..Len(branchNodes) :
          Cardinality(Members(old.choiceNodes, old.branchNodes, j)) > 1

(* C29: the convergence-aware layout adds no bottom padding: the boundary  *)
(* height is question height + 2 x BranchIntervalY + the height of the row *)
(* of groups, and where the plain layout of the same nodes without their   *)
(* redirects has a row of that height, its boundary is 200 units higher.   *)
C29_GroupHeight(j) ==
    SetMax({ old.choiceNodes[i].boundary.height :
                 i \in Members(old.choiceNodes, old.branchNodes, j) })
    + ElementIntervalY + old.branchNodes[j].boundary.height

C29_RowHeight ==
    SetMax({ C29_GroupHeight(j) :
                 j \in { k \in 1..Len(old.branchNodes) :
                            Members(old.choiceNodes, old.branchNodes, k) # {} } })

C29_PlainRowHeight ==
    SetMax({ old.choiceNodes[i].boundary.height + ElementIntervalY
             + old.branchNodes[i].boundary.height :
                 i \in 1..Min(Len(old.choiceNodes), Len(old.branchNodes)) })

C29_Unredirected ==
    [i \in 1..Len(old.choiceNodes) |-> [old.choiceNodes[i] EXCEPT !.data.gotoChoice = 0]]

C29_PlainHeight ==
    questionLayouterBranching(old.questionNode, C29_Unredirected,
                              old.branchNodes).layout.boundary.height

C29_NoBottomPadding ==
    ConvergedCall =>
        /\ result.boundary.height =
              old.questionNode.boundary.height + 2 * BranchIntervalY + C29_RowHeight
        /\ C29_PlainRowHeight = C29_RowHeight =>
              result.boundary.height + 200 = C29_PlainHeight

(* One redirect among three pairs of equal sizes.                          *)
C29_Witness ==
    /\ ConvergedCall
    /\ Len(old.choiceNodes) = 3
    /\ Len(old.branchNodes) = 3
    /\ Cardinality({ i \in 1..3 : old.choiceNodes[i].data.gotoChoice # 0 }) = 1
    /\ C29_PlainRowHeight = C29_RowHeight
    /\ result.boundary.height + 200 = C29_PlainHeight

(* C30: over any sequence of calls on the same nodes, with gotoChoice      *)
(* values and the question's type changing between the calls, no step      *)
(* turns a hidden flag from true to false, and only a call for a           *)
(* choice-type question with a non-empty convergence map changes a hidden  *)
(* flag at all.                                                            *)
C30_HiddenChanged ==
    \/ questionNode'.hidden # questionNode.hidden
    \/ \E i \in 1..Len(choiceNodes) : choiceNodes'[i].hidden # choiceNodes[i].hidden
    \/ \E j \in 1..Len(branchNodes) : branchNodes'[j].hidden # branchNodes[j].hidden

C30_HiddenStep ==
    /\ Len(branchNodes') = Len(branchNodes)
    /\ Len(choiceNodes') = Len(choiceNodes)
    /\ \A j \in 1..Len(branchNodes) : branchNodes[j].hidden => branchNodes'[j].hidden
    /\ C30_HiddenChanged =>
          /\ calls' = calls + 1
          /\ questionNode.data.type = "choice"
          /\ Len(branchNodes) > 0
          /\ HasConvergence(choiceNodes, branchNodes)
          /\ questionNode'.hidden = questionNode.hidden
          /\ \A i \in 1..Len(choiceNodes) : choiceNodes'[i].hidden = choiceNodes[i].hidden

C30_HiddenNeverCleared == [][C30_HiddenStep]_vars

(* A branch that came visible and was hidden by an earlier call is given a *)
(* choice again; the latest call placed it and it is still hidden.         *)
C30_Witness ==
    /\ calls > 1
    /\ ConvergedCall
    /\ \E j \in 1..Len(branchNodes) :
          /\ ~PriorHidden(MaxProfile, j)
          /\ old.branchNodes[j].hidden
          /\ Members(old.choiceNodes, old.branchNodes, j) # {}
          /\ branchNodes[j].offset # old.branchNodes[j].offset
          /\ branchNodes[j].hidden

====
